---- MODULE Spec2Model ----
(***************************************************************************)
(* ConfigDBConnector / ConfigDBPipeConnector (common/configdb.cpp) over a  *)
(* key/hash store.                                                         *)
(*                                                                         *)
(* A C++ std::string is a sequence of one-character strings, so that       *)
(* to_upper, find and substr are computed as the code computes them.  A    *)
(* std::map<string,string> is a function from field names to values.       *)
(***************************************************************************)
EXTENDS Integers, Sequences, FiniteSets, TLC

VARIABLES
    db,         \* the store's hash keys: flat key -> (field -> value)
    sentinel,   \* the value stored under INIT_INDICATOR, or Nil when absent
    pre,        \* db as it was when the latest API call started
    hist,       \* the API calls made so far, oldest first
    \* ConfigDBPipeConnector::mod_config in progress, beside another client
    ppc,        \* where it is: "idle", "loop", "scan", "done"
    pdata,      \* its argument data
    ptables,    \* the tables of data the loop has still to visit, in map order
    pcur,       \* cur of the _delete_table in progress
    pipeq,      \* the commands enqueued in the transaction pipe
    writes,     \* the writes the other client has made
    \* ConfigDBConnector::db_connect in progress, beside the writer that
    \* populates the store
    gpc,            \* where it is: "start", "subscribe", "listen", "recheck",
                    \* "unsubscribe", "done"
    wait_for_init,  \* its argument
    initialized,    \* its local: what client.get(INIT_INDICATOR) returned
    subscribed,     \* whether the pattern subscription is active
    events,         \* the messages queued for the subscription
    heard,          \* the messages listen_message has returned so far
    populated       \* whether the writer has set the sentinel

histVars == <<pre, hist>>

pipeVars == <<ppc, pdata, ptables, pcur, pipeq, writes>>

gateVars == <<gpc, wait_for_init, initialized, subscribed, events, heard, populated>>

vars == <<db, sentinel, histVars, pipeVars, gateVars>>

----------------------------------------------------------------------------
(* Strings *)

Nil == "nil"

TABLE_NAME_SEPARATOR == "|"

\* "CONFIG_DB_INITIALIZED": a key without a separator.
INIT_INDICATOR == <<"I">>

\* Byte values, the order std::map<string, ...> iterates in.
Code == ("C" :> 67) @@ ("I" :> 73) @@ ("P" :> 80) @@ ("X" :> 88) @@
        ("a" :> 97) @@ ("b" :> 98) @@ ("c" :> 99) @@ ("p" :> 112) @@
        ("|" :> 124)

ToUpperChar(c) == IF c = "p" THEN "P" ELSE
                  IF c = "c" THEN "C" ELSE
                  IF c = "a" THEN "A" ELSE
                  IF c = "b" THEN "B" ELSE c

\* boost::to_upper_copy
to_upper(s) == [i \in 1..Len(s) |-> ToUpperChar(s[i])]

\* std::string::find(TABLE_NAME_SEPARATOR): the first position (1-based), 0 for npos
Find(s, c) == IF \E i \in 1..Len(s) : s[i] = c
              THEN CHOOSE i \in 1..Len(s) : s[i] = c /\ \A j \in 1..(i - 1) : s[j] # c
              ELSE 0

\* std::string::substr(from) with a 1-based from
SubstrFrom(s, from) == SubSeq(s, from, Len(s))

\* operator< of std::string
RECURSIVE StrLess(_, _)
StrLess(s, t) ==
    IF t = <<>> THEN FALSE
    ELSE IF s = <<>> THEN TRUE
    ELSE IF Code[Head(s)] # Code[Head(t)] THEN Code[Head(s)] < Code[Head(t)]
    ELSE StrLess(Tail(s), Tail(t))

EmptyMap == <<>>

IsEmpty(m) == DOMAIN m = {}

----------------------------------------------------------------------------
(* The store *)

\* The enumeration order of the store's key space (KEYS and SCAN walk it).
Slots == << <<"P", "C", "|", "a">>,
            <<"I">>,
            <<"P", "|", "a">>,
            <<"X">>,
            <<"P", "|", "a", "|", "b">> >>

AllKeys(d, s) == DOMAIN d \cup (IF s # Nil THEN {INIT_INDICATOR} ELSE {})

\* DEL key
Del(d, k) == [x \in (DOMAIN d) \ {k} |-> d[x]]

\* HGETALL key: the empty map for an absent key
Hgetall(d, k) == IF k \in DOMAIN d THEN d[k] ELSE EmptyMap

\* HMSET key field value [field value ...]
Hmset(d, k, data) == [x \in (DOMAIN d) \cup {k} |->
                        IF x = k THEN data @@ Hgetall(d, k) ELSE d[x]]

\* HDEL key field: a hash left without fields is removed
Hdel(d, k, f) ==
    IF k \notin DOMAIN d THEN d
    ELSE LET e == [x \in (DOMAIN d[k]) \ {f} |-> d[k][x]]
         IN  IF IsEmpty(e) THEN Del(d, k) ELSE [d EXCEPT ![k] = e]

IsPrefix(p, s) == Len(p) <= Len(s) /\ SubSeq(s, 1, Len(p)) = p

\* KEYS prefix*: the matching keys in the store's enumeration order
Keys(d, s, prefix) ==
    SelectSeq(Slots, LAMBDA k : k \in AllKeys(d, s) /\ IsPrefix(prefix, k))

REDIS_SCAN_BATCH_SIZE == 2

\* SCAN cursor MATCH prefix* COUNT count: the next count slots of the key space;
\* the returned cursor is 0 when the pass is complete
Scan(d, s, cursor, prefix, count) ==
    LET upto == IF cursor + count < Len(Slots) THEN cursor + count ELSE Len(Slots)
        page == SubSeq(Slots, cursor + 1, upto)
    IN  [cur  |-> IF upto < Len(Slots) THEN upto ELSE 0,
         keys |-> SelectSeq(page, LAMBDA k : k \in AllKeys(d, s) /\ IsPrefix(prefix, k))]

\* RedisCommand: DEL key, HMSET key data, HGETALL key
Command(cmd, key, data) == [cmd |-> cmd, key |-> key, data |-> data]

\* the effect of one queued command on the store
Apply(d, c) ==
    IF c.cmd = "DEL" THEN Del(d, c.key)
    ELSE IF c.cmd = "HMSET" THEN Hmset(d, c.key, c.data)
    ELSE d

\* RedisTransactioner::exec: the queued commands take effect in order, as one unit
RECURSIVE ExecStore(_, _)
ExecStore(d, queue) ==
    IF queue = <<>> THEN d ELSE ExecStore(Apply(d, Head(queue)), Tail(queue))

----------------------------------------------------------------------------
(* ConfigDBConnector: single entries *)

\* variant: the table name is used as given
HashVerbatim(table, key) == table \o <<TABLE_NAME_SEPARATOR>> \o key

Hash(table, key) == to_upper(table) \o <<TABLE_NAME_SEPARATOR>> \o key

get_entry(d, table, key) == Hgetall(d, Hash(table, key))

RECURSIVE HdelEach(_, _, _)
HdelEach(d, k, fields) ==
    IF fields = {} THEN d
    ELSE LET f == CHOOSE x \in fields : TRUE
         IN  HdelEach(Hdel(d, k, f), k, fields \ {f})

set_entry(d, table, key, data) ==
    LET h == Hash(table, key) IN
    IF IsEmpty(data) THEN Del(d, h)
    ELSE LET original == get_entry(d, table, key)
             written  == Hmset(d, h, data)
             \* found is true for a field that is NOT in data; the field is
             \* removed when found is false
             removed  == {k \in DOMAIN original : ~(k \notin DOMAIN data)}
         IN  HdelEach(written, h, removed)

\* variant: the row is replaced, fields not in data are dropped
mod_entry_pruning(d, table, key, data) ==
    LET h == Hash(table, key) IN
    IF IsEmpty(data) THEN Del(d, h)
    ELSE Hmset(Del(d, h), h, data)

\* variant: empty data leaves the row alone
mod_entry_keeping(d, table, key, data) ==
    LET h == Hash(table, key) IN
    IF IsEmpty(data) THEN d
    ELSE Hmset(d, h, data)

mod_entry(d, table, key, data) ==
    LET h == Hash(table, key) IN
    IF IsEmpty(data) THEN Del(d, h)
    ELSE Hmset(d, h, data)

get_keys(d, s, table, split) ==
    LET keys == Keys(d, s, to_upper(table) \o <<TABLE_NAME_SEPARATOR>>) IN
    [i \in 1..Len(keys) |->
        IF split
        THEN LET pos == Find(keys[i], TABLE_NAME_SEPARATOR)
             IN  IF pos # 0 THEN SubstrFrom(keys[i], pos + 1) ELSE <<>>
        ELSE keys[i]]

RECURSIVE GetTableLoop(_, _, _)
GetTableLoop(d, keys, data) ==
    IF keys = <<>> THEN data
    ELSE LET key   == Head(keys)
             entry == Hgetall(d, key)
             pos   == Find(key, TABLE_NAME_SEPARATOR)
             row   == IF pos # 0 THEN SubstrFrom(key, pos + 1) ELSE <<>>
         IN  GetTableLoop(d, Tail(keys), (row :> entry) @@ data)

\* variant: the pattern is uppercase(table) + "*"
get_table_prefix(d, s, table) ==
    GetTableLoop(d, Keys(d, s, to_upper(table)), EmptyMap)

get_table(d, s, table) ==
    GetTableLoop(d, Keys(d, s, to_upper(table) \o <<TABLE_NAME_SEPARATOR>>), EmptyMap)

----------------------------------------------------------------------------
(* ConfigDBConnector: tables and whole configurations *)

\* the elements of a set of strings in the order a std::map iterates over them
RECURSIVE SortedStrings(_)
SortedStrings(S) ==
    IF S = {} THEN <<>>
    ELSE LET least == CHOOSE x \in S : \A y \in S \ {x} : StrLess(x, y)
         IN  <<least>> \o SortedStrings(S \ {least})

Pattern(table) == to_upper(table) \o <<TABLE_NAME_SEPARATOR>>

\* variant: the pattern without the separator, uppercase(table) + "*"
PatternNoSeparator(table) == to_upper(table)

RECURSIVE DelEach(_, _)
DelEach(d, keys) ==
    IF keys = <<>> THEN d ELSE DelEach(Del(d, Head(keys)), Tail(keys))

delete_table_prefix(d, s, table) == DelEach(d, Keys(d, s, PatternNoSeparator(table)))

\* variant: only the first key the enumeration returns is deleted
delete_table_first(d, s, table) ==
    LET keys == Keys(d, s, Pattern(table))
    IN  IF keys = <<>> THEN d ELSE Del(d, Head(keys))

delete_table(d, s, table) == DelEach(d, Keys(d, s, Pattern(table)))

RECURSIVE ModRows(_, _, _, _)
ModRows(d, table_name, table_data, rows) ==
    IF rows = <<>> THEN d
    ELSE ModRows(mod_entry(d, table_name, Head(rows), table_data[Head(rows)]),
                 table_name, table_data, Tail(rows))

RECURSIVE ModConfigLoop(_, _, _, _)
ModConfigLoop(d, s, data, tables) ==
    IF tables = <<>> THEN d
    ELSE LET table_name == Head(tables)
             table_data == data[table_name]
         IN  IF IsEmpty(table_data)
             THEN ModConfigLoop(delete_table(d, s, table_name), s, data, Tail(tables))
             ELSE ModConfigLoop(ModRows(d, table_name, table_data,
                                        SortedStrings(DOMAIN table_data)),
                                s, data, Tail(tables))

mod_config(d, s, data) == ModConfigLoop(d, s, data, SortedStrings(DOMAIN data))

\* the loop of ConfigDBConnector::get_config; reads lists the keys HGETALL was
\* issued for
RECURSIVE GetConfigLoop(_, _, _, _)
GetConfigLoop(d, keys, data, reads) ==
    IF keys = <<>> THEN [data |-> data, reads |-> reads]
    ELSE LET key == Head(keys)
             pos == Find(key, TABLE_NAME_SEPARATOR)
         IN  IF pos = 0 THEN GetConfigLoop(d, Tail(keys), data, reads)
             ELSE LET table_name == SubSeq(key, 1, pos - 1)
                      row        == SubstrFrom(key, pos + 1)
                      entry      == Hgetall(d, key)
                      rows       == IF table_name \in DOMAIN data
                                    THEN data[table_name] ELSE EmptyMap
                  IN  IF IsEmpty(entry)
                      THEN GetConfigLoop(d, Tail(keys), data, Append(reads, key))
                      ELSE GetConfigLoop(d, Tail(keys),
                                         (table_name :> ((row :> entry) @@ rows)) @@ data,
                                         Append(reads, key))

\* ConfigDBConnector::get_config: the snapshot and the reads it issued
get_config_run(d, s) == GetConfigLoop(d, Keys(d, s, <<>>), EmptyMap, <<>>)

get_config(d, s) == get_config_run(d, s).data

----------------------------------------------------------------------------
(* ConfigDBPipeConnector *)

\* variant: the keys of the page are deleted at once, outside the transaction
_delete_entries_at_once(d, s, pipe, pattern, cursor) ==
    LET rc == Scan(d, s, cursor, pattern, REDIS_SCAN_BATCH_SIZE)
    IN  [cur  |-> rc.cur,
         pipe |-> pipe,
         db   |-> DelEach(d, rc.keys),
         page |-> [cursor |-> cursor, cur |-> rc.cur, keys |-> rc.keys]]

\* variant: the loop over the keys of the page stops one key early
_delete_entries_but_last(d, s, pipe, pattern, cursor) ==
    LET rc == Scan(d, s, cursor, pattern, REDIS_SCAN_BATCH_SIZE)
    IN  [cur  |-> rc.cur,
         pipe |-> pipe \o [i \in 1..(Len(rc.keys) - 1) |->
                              Command("DEL", rc.keys[i], EmptyMap)],
         db   |-> d,
         page |-> [cursor |-> cursor, cur |-> rc.cur, keys |-> rc.keys]]

\* one page: a DEL is enqueued for every key the scan returns; cur, the
\* transaction and the store afterwards (which the call leaves as it is), and
\* what the page did (cursor passed and returned, keys of the page)
_delete_entries(d, s, pipe, pattern, cursor) ==
    LET rc == Scan(d, s, cursor, pattern, REDIS_SCAN_BATCH_SIZE)
    IN  [cur  |-> rc.cur,
         pipe |-> pipe \o [i \in 1..Len(rc.keys) |-> Command("DEL", rc.keys[i], EmptyMap)],
         db   |-> d,
         page |-> [cursor |-> cursor, cur |-> rc.cur, keys |-> rc.keys]]

\* while (cur != 0), against a store no one else writes to
RECURSIVE DeleteTableLoop(_, _, _, _, _, _)
DeleteTableLoop(d, s, pipe, pattern, cur, pages) ==
    IF cur = 0 THEN [pipe |-> pipe, pages |-> pages]
    ELSE LET r == _delete_entries(d, s, pipe, pattern, cur)
         IN  DeleteTableLoop(d, s, r.pipe, pattern, r.cur, Append(pages, r.page))

\* _delete_table: the transaction afterwards and the pages it went through
_delete_table_run(d, s, pipe, table) ==
    LET r == _delete_entries(d, s, pipe, Pattern(table), 0)
    IN  DeleteTableLoop(d, s, r.pipe, Pattern(table), r.cur, <<r.page>>)

_delete_table(d, s, pipe, table) == _delete_table_run(d, s, pipe, table).pipe

\* variant: the row is deleted before it is written
_mod_entry_replacing(pipe, table, key, data) ==
    LET h == Hash(table, key) IN
    IF IsEmpty(data) THEN Append(pipe, Command("DEL", h, EmptyMap))
    ELSE pipe \o <<Command("DEL", h, EmptyMap), Command("HMSET", h, data)>>

_mod_entry(pipe, table, key, data) ==
    LET h == Hash(table, key) IN
    IF IsEmpty(data) THEN Append(pipe, Command("DEL", h, EmptyMap))
    ELSE Append(pipe, Command("HMSET", h, data))

RECURSIVE PipeModRows(_, _, _, _)
PipeModRows(pipe, table_name, table_data, rows) ==
    IF rows = <<>> THEN pipe
    ELSE PipeModRows(_mod_entry(pipe, table_name, Head(rows), table_data[Head(rows)]),
                     table_name, table_data, Tail(rows))

\* the body of the loop over data for one table: what it adds to the transaction
PipeModTable(d, s, pipe, data, table_name) ==
    IF IsEmpty(data[table_name])
    THEN _delete_table(d, s, pipe, table_name)
    ELSE PipeModRows(pipe, table_name, data[table_name],
                     SortedStrings(DOMAIN data[table_name]))

RECURSIVE PipeModConfigLoop(_, _, _, _, _)
PipeModConfigLoop(d, s, pipe, data, tables) ==
    IF tables = <<>> THEN pipe
    ELSE PipeModConfigLoop(d, s, PipeModTable(d, s, pipe, data, Head(tables)),
                           data, Tail(tables))

\* ConfigDBPipeConnector::mod_config against a store no one else writes to
pipe_mod_config(d, s, data) ==
    ExecStore(d, PipeModConfigLoop(d, s, <<>>, data, SortedStrings(DOMAIN data)))

\* data[table_name][row] of a std::map: the element, inserted empty when absent
Inserted(data, table_name, row) ==
    LET old_rows == IF table_name \in DOMAIN data THEN data[table_name] ELSE EmptyMap
        entry    == IF row \in DOMAIN old_rows THEN old_rows[row] ELSE EmptyMap
    IN  [t \in (DOMAIN data) \cup {table_name} |->
            IF t = table_name THEN (row :> entry) @@ old_rows ELSE data[t]]

\* key.substr(0, pos - 1) for the 1-based position p of the separator: pos - 1 is
\* p - 2 characters, and wraps to npos (the whole key) when the separator is first
TableNameOf(key, p) == IF p = 1 THEN key ELSE SubSeq(key, 1, p - 2)

\* variant: the sentinel is not skipped
GetConfigReadsAll(keys) == keys

\* the first loop of _get_config: the keys an HGETALL is enqueued for
GetConfigReads(keys) == SelectSeq(keys, LAMBDA k : k # INIT_INDICATOR)

\* the reply to HGETALL key, with the key it answers
Reply(d, key) == [key |-> key, entry |-> Hgetall(d, key)]

\* the second loop of _get_config: replies are taken from the front of the queue;
\* taken lists, for every dequeueReply, the key being processed and the key the
\* reply it got answers
RECURSIVE GetConfigDrain(_, _, _, _)
GetConfigDrain(keys, replies, data, taken) ==
    IF keys = <<>> THEN [data |-> data, taken |-> taken]
    ELSE LET key == Head(keys)
             p   == Find(key, TABLE_NAME_SEPARATOR)
         IN  IF key = INIT_INDICATOR THEN GetConfigDrain(Tail(keys), replies, data, taken)
             ELSE IF p = 0 THEN GetConfigDrain(Tail(keys), replies, data, taken)
             ELSE IF replies = <<>> THEN GetConfigDrain(Tail(keys), replies, data, taken)
             ELSE \* dataentry is a copy: the reply's fields are emplaced into the
                  \* copy, data keeps the element operator[] inserted
                  GetConfigDrain(Tail(keys), Tail(replies),
                                 Inserted(data, TableNameOf(key, p), SubstrFrom(key, p + 1)),
                                 Append(taken, <<key, Head(replies).key>>))

\* one page of ConfigDBPipeConnector::_get_config: the cursor returned, data
\* afterwards, and what the page did (cursor passed and returned, keys of the
\* page, reads enqueued, replies taken)
_get_config(d, s, data, cursor) ==
    LET rc      == Scan(d, s, cursor, <<>>, REDIS_SCAN_BATCH_SIZE)
        reads   == GetConfigReads(rc.keys)
        replies == [i \in 1..Len(reads) |-> Reply(d, reads[i])]
        drained == GetConfigDrain(rc.keys, replies, data, <<>>)
    IN  [cur  |-> rc.cur,
         data |-> drained.data,
         page |-> [cursor |-> cursor, cur |-> rc.cur, keys |-> rc.keys,
                   reads |-> reads, taken |-> drained.taken]]

\* variant: without the loop, only the page of cursor 0 is processed
PipeGetConfigLoopNone(d, s, data, cur, pages) == [data |-> data, pages |-> pages]

\* while (cur != 0) of get_config
RECURSIVE PipeGetConfigLoop(_, _, _, _, _)
PipeGetConfigLoop(d, s, data, cur, pages) ==
    IF cur = 0 THEN [data |-> data, pages |-> pages]
    ELSE LET r == _get_config(d, s, data, cur)
         IN  PipeGetConfigLoop(d, s, r.data, r.cur, Append(pages, r.page))

\* ConfigDBPipeConnector::get_config against a store no one else writes to:
\* the snapshot and the pages it went through
pipe_get_config_run(d, s) ==
    LET r == _get_config(d, s, EmptyMap, 0)
    IN  PipeGetConfigLoop(d, s, r.data, r.cur, <<r.page>>)

pipe_get_config(d, s) == pipe_get_config_run(d, s).data

----------------------------------------------------------------------------
(* Inputs *)

Fields == {"f", "g"}

Values == {"1", "2"}

\* every map<string,string> over Fields, the empty one included
DataSet == UNION {[F -> Values] : F \in SUBSET Fields}

EntryTables == {<<"p">>, <<"P">>}

Rows == {<<"a">>, <<"a", "|", "b">>}

EntryKeys == {Hash(t, r) : t \in EntryTables, r \in Rows}

InitEntries == {EmptyMap, ("f" :> "1"), ("f" :> "1") @@ ("g" :> "2")}

\* a store holding the non-empty entries of m
StoreOf(m) == [k \in {x \in DOMAIN m : ~IsEmpty(m[x])} |-> m[k]]

MaxCalls == 2

\* no batch mod_config in progress
PipeIdle ==
    /\ ppc = "idle"
    /\ pdata = EmptyMap
    /\ ptables = <<>>
    /\ pcur = 0
    /\ pipeq = <<>>
    /\ writes = 0

\* no db_connect in progress
GateIdle ==
    /\ gpc = "done"
    /\ wait_for_init = FALSE
    /\ initialized = Nil
    /\ subscribed = FALSE
    /\ events = <<>>
    /\ heard = <<>>
    /\ populated = TRUE

Call(op, table, key, data) == [op |-> op, table |-> table, key |-> key, data |-> data]

----------------------------------------------------------------------------
(* The client calling set_entry and mod_entry, no other writer *)

Init ==
    /\ db \in {StoreOf(m) : m \in [EntryKeys -> InitEntries]}
    /\ sentinel = "1"
    /\ pre = db
    /\ hist = <<>>
    /\ PipeIdle
    /\ GateIdle

SetEntry ==
    /\ Len(hist) < MaxCalls
    /\ \E table \in EntryTables, key \in Rows, data \in DataSet :
        /\ db' = set_entry(db, table, key, data)
        /\ pre' = db
        /\ hist' = Append(hist, Call("set", table, key, data))
        /\ UNCHANGED <<sentinel, pipeVars, gateVars>>

ModEntry ==
    /\ Len(hist) < MaxCalls
    /\ \E table \in EntryTables, key \in Rows, data \in DataSet :
        /\ db' = mod_entry(db, table, key, data)
        /\ pre' = db
        /\ hist' = Append(hist, Call("mod", table, key, data))
        /\ UNCHANGED <<sentinel, pipeVars, gateVars>>

Next == SetEntry \/ ModEntry

Spec == Init /\ [][Next]_vars

----------------------------------------------------------------------------
(* Claims about single entries *)

Last == hist[Len(hist)]

Prev == hist[Len(hist) - 1]

SameRow(c1, c2) == c1.table = c2.table /\ c1.key = c2.key

\* C1: set(T,R,data) with non-empty data, whatever the row held before, followed
\* by get(T,R) returns exactly data.
C1_SetThenGetIsData ==
    (Len(hist) >= 1 /\ Last.op = "set" /\ ~IsEmpty(Last.data))
        => get_entry(db, Last.table, Last.key) = Last.data

\* C2: set(T,R,d1) followed by set(T,R,d2), d2 non-empty, leaves no field of d1
\* that is absent from d2.
C2_SetPrunesStaleFields ==
    (Len(hist) >= 2 /\ Prev.op = "set" /\ Last.op = "set" /\ SameRow(Prev, Last)
        /\ ~IsEmpty(Last.data))
        => \A f \in (DOMAIN Prev.data) \ (DOMAIN Last.data) :
               f \notin DOMAIN get_entry(db, Last.table, Last.key)

\* C3: modify(T,R,d1) followed by modify(T,R,d2), both non-empty, leaves every
\* field of d2 with d2's value and every field of d1 not named in d2 with d1's
\* value; a modify with non-empty data removes no field the row had.
C3_ModifyIsAdditive ==
    /\ (Len(hist) >= 2 /\ Prev.op = "mod" /\ Last.op = "mod" /\ SameRow(Prev, Last)
          /\ ~IsEmpty(Prev.data) /\ ~IsEmpty(Last.data))
        => LET e == get_entry(db, Last.table, Last.key) IN
           /\ \A f \in DOMAIN Last.data : f \in DOMAIN e /\ e[f] = Last.data[f]
           /\ \A f \in (DOMAIN Prev.data) \ (DOMAIN Last.data) :
                  f \in DOMAIN e /\ e[f] = Prev.data[f]
    /\ (Len(hist) >= 1 /\ Last.op = "mod" /\ ~IsEmpty(Last.data))
        => DOMAIN get_entry(pre, Last.table, Last.key)
               \subseteq DOMAIN get_entry(db, Last.table, Last.key)

\* a row holding {f:1, g:2}: modify {f:2} then modify {g:1} leaves {f:2, g:1}
C3_Witness ==
    /\ Len(hist) = 2 /\ Prev.op = "mod" /\ Last.op = "mod" /\ SameRow(Prev, Last)
    /\ Prev.data = ("f" :> "2")
    /\ Last.data = ("g" :> "1")
    /\ get_entry(pre, Last.table, Last.key) = ("f" :> "2") @@ ("g" :> "2")
    /\ get_entry(db, Last.table, Last.key) = ("f" :> "2") @@ ("g" :> "1")

----------------------------------------------------------------------------
(* The client making one whole-configuration call on any store, no other writer *)

ConfigTables == {<<"p">>, <<"P">>, <<"P", "C">>}

ConfigKeys == {Slots[i] : i \in 1..Len(Slots)} \ {INIT_INDICATOR}

ConfigInitEntries == {EmptyMap, ("f" :> "1") @@ ("g" :> "2")}

SnapData == {EmptyMap, ("f" :> "2"), ("f" :> "1") @@ ("g" :> "1")}

SnapRows == UNION {[R -> SnapData] : R \in SUBSET Rows}

Snapshots == UNION {[T -> SnapRows] : T \in SUBSET ConfigTables}

ConfigCall(op, snap, ret) == [op |-> op, snap |-> snap, ret |-> ret]

ConfigInit ==
    /\ db \in {StoreOf(m) : m \in [ConfigKeys -> ConfigInitEntries]}
    /\ sentinel \in {Nil, "1"}
    /\ pre = db
    /\ hist = <<>>
    /\ PipeIdle
    /\ GateIdle

ModConfig ==
    /\ hist = <<>>
    /\ \E data \in Snapshots :
        /\ db' = mod_config(db, sentinel, data)
        /\ pre' = db
        /\ hist' = <<ConfigCall("mod_config", data, EmptyMap)>>
        /\ UNCHANGED <<sentinel, pipeVars, gateVars>>

PipeModConfig ==
    /\ hist = <<>>
    /\ \E data \in Snapshots :
        /\ db' = pipe_mod_config(db, sentinel, data)
        /\ pre' = db
        /\ hist' = <<ConfigCall("pipe_mod_config", data, EmptyMap)>>
        /\ UNCHANGED <<sentinel, pipeVars, gateVars>>

PipeGetConfig ==
    /\ hist = <<>>
    /\ pre' = db
    /\ hist' = <<ConfigCall("pipe_get_config", EmptyMap, pipe_get_config(db, sentinel))>>
    /\ UNCHANGED <<db, sentinel, pipeVars, gateVars>>

\* delete_table(table); the record keeps the table as the call's argument
DeleteTable ==
    /\ hist = <<>>
    /\ \E table \in ConfigTables :
        /\ db' = delete_table(db, sentinel, table)
        /\ pre' = db
        /\ hist' = <<ConfigCall("delete_table", table, EmptyMap)>>
        /\ UNCHANGED <<sentinel, pipeVars, gateVars>>

\* get_table(table); the record keeps the table as the call's argument
GetTable ==
    /\ hist = <<>>
    /\ \E table \in ConfigTables :
        /\ pre' = db
        /\ hist' = <<ConfigCall("get_table", table, get_table(db, sentinel, table))>>
        /\ UNCHANGED <<db, sentinel, pipeVars, gateVars>>

GetConfig ==
    /\ hist = <<>>
    /\ pre' = db
    /\ hist' = <<ConfigCall("get_config", EmptyMap, get_config(db, sentinel))>>
    /\ UNCHANGED <<db, sentinel, pipeVars, gateVars>>

\* mod_config(get_config()) on the direct connector
WriteBack ==
    /\ hist = <<>>
    /\ LET snap == get_config(db, sentinel)
       IN  /\ db' = mod_config(db, sentinel, snap)
           /\ hist' = <<ConfigCall("write_back", snap, EmptyMap)>>
    /\ pre' = db
    /\ UNCHANGED <<sentinel, pipeVars, gateVars>>

\* mod_config(get_config()) on the batch connector
PipeWriteBack ==
    /\ hist = <<>>
    /\ LET snap == pipe_get_config(db, sentinel)
       IN  /\ db' = pipe_mod_config(db, sentinel, snap)
           /\ hist' = <<ConfigCall("pipe_write_back", snap, EmptyMap)>>
    /\ pre' = db
    /\ UNCHANGED <<sentinel, pipeVars, gateVars>>

ConfigNext ==
    \/ ModConfig
    \/ PipeModConfig
    \/ PipeGetConfig
    \/ DeleteTable
    \/ GetTable
    \/ GetConfig
    \/ WriteBack
    \/ PipeWriteBack

ConfigSpec == ConfigInit /\ [][ConfigNext]_vars

----------------------------------------------------------------------------
(* Claims about whole-configuration calls *)

IsModConfig(c) == c.op \in {"mod_config", "pipe_mod_config"}

\* decode(flatKey): the text before and after the first separator
DecodedTable(k) == SubSeq(k, 1, Find(k, TABLE_NAME_SEPARATOR) - 1)

DecodedRow(k) == SubstrFrom(k, Find(k, TABLE_NAME_SEPARATOR) + 1)

Decodable(k) == Find(k, TABLE_NAME_SEPARATOR) # 0

IsRowOf(k, table) == Decodable(k) /\ DecodedTable(k) = to_upper(table)

\* C4: modConfig({T: {}}), direct and batch, removes every row of table T and
\* leaves every row and field of every other table as it was, tables whose name
\* has T as a prefix included.
C4_EmptyRowMapDeletesOnlyThatTable ==
    \A T \in ConfigTables :
        (hist # <<>> /\ IsModConfig(Last) /\ Last.snap = (T :> EmptyMap))
            => /\ \A k \in DOMAIN db : ~IsRowOf(k, T)
               /\ \A k \in DOMAIN pre : ~IsRowOf(k, T) => (k \in DOMAIN db /\ db[k] = pre[k])
               /\ DOMAIN db \subseteq DOMAIN pre

\* batch modConfig({p: {}}) on a store holding two rows of P, a row of PC and a
\* key without separator
C4_Witness ==
    /\ hist # <<>> /\ Last.op = "pipe_mod_config" /\ Last.snap = (<<"p">> :> EmptyMap)
    /\ DOMAIN pre = ConfigKeys
    /\ DOMAIN db = {<<"P", "C", "|", "a">>, <<"X">>}

AllNonEmpty(snap) ==
    \A t \in DOMAIN snap :
        /\ ~IsEmpty(snap[t])
        /\ \A r \in DOMAIN snap[t] : ~IsEmpty(snap[t][r])

\* the snapshot names field f of the row stored under flat key k
Named(snap, k, f) ==
    \E t \in DOMAIN snap : \E r \in DOMAIN snap[t] :
        Hash(t, r) = k /\ f \in DOMAIN snap[t][r]

\* what modConfig leaves untouched: rows and fields the snapshot does not name
FrameKept(snap) ==
    /\ \A k \in DOMAIN pre :
           /\ k \in DOMAIN db
           /\ \A f \in DOMAIN pre[k] :
                  ~Named(snap, k, f) => (f \in DOMAIN db[k] /\ db[k][f] = pre[k][f])
    /\ \A k \in DOMAIN db : \A f \in DOMAIN db[k] :
           Named(snap, k, f) \/ (k \in DOMAIN pre /\ f \in DOMAIN pre[k])

\* C5 as stated: for a snapshot whose tables all have non-empty row-maps with
\* non-empty data, after modConfig every named field holds the snapshot's value
\* and everything not named keeps its prior value.
C5_EveryNamedFieldHoldsItsValue ==
    (hist # <<>> /\ IsModConfig(Last) /\ AllNonEmpty(Last.snap))
        => /\ \A t \in DOMAIN Last.snap : \A r \in DOMAIN Last.snap[t] :
                  \A f \in DOMAIN Last.snap[t][r] :
                      LET e == get_entry(db, t, r)
                      IN  f \in DOMAIN e /\ e[f] = Last.snap[t][r][f]
           /\ FrameKept(Last.snap)

\* the table names of the snapshot that name field f of the row stored under k
Namers(snap, k, f) ==
    {t \in DOMAIN snap : \E r \in DOMAIN snap[t] : Hash(t, r) = k /\ f \in DOMAIN snap[t][r]}

\* C5, amended: as stated, except that a field the snapshot names under several
\* table names differing only in letter case holds the value given under the
\* name that is last in the snapshot's key order.
C5_LastNamerWins ==
    (hist # <<>> /\ IsModConfig(Last) /\ AllNonEmpty(Last.snap))
        => /\ \A t \in DOMAIN Last.snap : \A r \in DOMAIN Last.snap[t] :
                  \A f \in DOMAIN Last.snap[t][r] :
                      LET e      == get_entry(db, t, r)
                          namers == SortedStrings(Namers(Last.snap, Hash(t, r), f))
                          winner == namers[Len(namers)]
                      IN  f \in DOMAIN e /\ e[f] = Last.snap[winner][r][f]
           /\ FrameKept(Last.snap)

\* batch modConfig({P: {a: {f:1, g:1}}, p: {a: {f:2}}}) on a store with rows in
\* P and PC: p comes last, the unnamed rows stay
C5_Witness ==
    /\ hist # <<>> /\ Last.op = "pipe_mod_config"
    /\ Last.snap = (<<"P">> :> (<<"a">> :> (("f" :> "1") @@ ("g" :> "1"))))
                   @@ (<<"p">> :> (<<"a">> :> ("f" :> "2")))
    /\ DOMAIN pre = ConfigKeys
    /\ db[<<"P", "|", "a">>] = ("f" :> "2") @@ ("g" :> "1")
    /\ db[<<"P", "C", "|", "a">>] = ("f" :> "1") @@ ("g" :> "2")
    /\ db[<<"P", "|", "a", "|", "b">>] = pre[<<"P", "|", "a", "|", "b">>]

\* the configuration a store holds: every decodable key, by table and row
ExpectedConfig(d) ==
    LET ks == {k \in DOMAIN d : Decodable(k)}
    IN  [t \in {DecodedTable(k) : k \in ks} |->
            [r \in {DecodedRow(k) : k \in {x \in ks : DecodedTable(x) = t}} |->
                d[t \o <<TABLE_NAME_SEPARATOR>> \o r]]]

\* C6: batch getConfig on a store no one writes to returns exactly the store's
\* configuration: snapshot[text before the first separator][text after it] is the
\* stored entry, for every key with a separator, and nothing else.
C6_PipeGetConfigReturnsTheStore ==
    (hist # <<>> /\ Last.op = "pipe_get_config") => Last.ret = ExpectedConfig(db)

----------------------------------------------------------------------------
(* ConfigDBPipeConnector::mod_config step by step, beside another client that
   writes to the same store.  The call touches the store when it scans a page
   and when it executes the transaction; what lies between is local. *)

PipeTables == {<<"p">>, <<"P", "C">>}

PipeSnapRows == {rows \in SnapRows : Cardinality(DOMAIN rows) <= 1}

PipeSnapshots == UNION {[T -> PipeSnapRows] : T \in SUBSET PipeTables}

WriterData == {EmptyMap, ("f" :> "2")}

MaxWrites == 1

pipeClient == <<ppc, pdata, ptables, pcur, pipeq>>

PipeInit ==
    /\ db \in {StoreOf(m) : m \in [ConfigKeys -> ConfigInitEntries]}
    /\ sentinel = "1"
    /\ pre = db
    /\ hist = <<>>
    /\ PipeIdle
    /\ GateIdle

\* RedisTransactioner pipe(&client); pipe.multi();
PipeBegin ==
    /\ ppc = "idle"
    /\ \E data \in PipeSnapshots :
        /\ pdata' = data
        /\ ptables' = SortedStrings(DOMAIN data)
    /\ ppc' = "loop"
    /\ pipeq' = <<>>
    /\ pre' = db
    /\ hist' = Append(hist, Call("pipe_mod_config", <<>>, <<>>, EmptyMap))
    /\ UNCHANGED <<db, sentinel, pcur, writes, gateVars>>

\* where the call stands once a _delete_entries has returned r
AfterDeleteEntries(r) ==
    /\ pipeq' = r.pipe
    /\ db' = r.db
    /\ pcur' = r.cur
    /\ IF r.cur # 0
       THEN ppc' = "scan" /\ UNCHANGED ptables
       ELSE ppc' = "loop" /\ ptables' = Tail(ptables)

\* one round of the loop over data: the first page of _delete_table, or the
\* _mod_entry of every row
PipeVisitTable ==
    /\ ppc = "loop"
    /\ ptables # <<>>
    /\ LET table_name == Head(ptables)
           table_data == pdata[table_name]
       IN  IF IsEmpty(table_data)
           THEN AfterDeleteEntries(
                    _delete_entries(db, sentinel, pipeq, Pattern(table_name), 0))
           ELSE /\ pipeq' = PipeModRows(pipeq, table_name, table_data,
                                        SortedStrings(DOMAIN table_data))
                /\ ptables' = Tail(ptables)
                /\ UNCHANGED <<db, pcur, ppc>>
    /\ UNCHANGED <<sentinel, histVars, pdata, writes, gateVars>>

\* while (cur != 0) cur = _delete_entries(client, pipe, pattern, cur)
PipeScanNext ==
    /\ ppc = "scan"
    /\ AfterDeleteEntries(
           _delete_entries(db, sentinel, pipeq, Pattern(Head(ptables)), pcur))
    /\ UNCHANGED <<sentinel, histVars, pdata, writes, gateVars>>

\* pipe.exec()
PipeExec ==
    /\ ppc = "loop"
    /\ ptables = <<>>
    /\ db' = ExecStore(db, pipeq)
    /\ ppc' = "done"
    /\ hist' = Append(hist, Call("exec", <<>>, <<>>, EmptyMap))
    /\ UNCHANGED <<sentinel, pre, pdata, ptables, pcur, pipeq, writes, gateVars>>

\* the other client: a mod_entry on a row of table P
OtherWrite ==
    /\ writes < MaxWrites
    /\ \E key \in Rows, data \in WriterData :
        /\ db' = mod_entry(db, <<"P">>, key, data)
        /\ hist' = Append(hist, Call("mod", <<"P">>, key, data))
    /\ writes' = writes + 1
    /\ UNCHANGED <<sentinel, pre, pipeClient, gateVars>>

PipeNext == PipeBegin \/ PipeVisitTable \/ PipeScanNext \/ PipeExec \/ OtherWrite

PipeSpec == PipeInit /\ [][PipeNext]_vars

\* C9: batch modConfig applies all its hash-writes and deletes in one commit step
\* at the end: every step of the call before the commit leaves the store as it
\* is, and the commit applies every enqueued command - one for each row the data
\* names - at once.
C9_PipeModConfigCommitsOnce ==
    [][pipeClient' # pipeClient =>
          IF ppc = "loop" /\ ptables = <<>>
          THEN /\ db' = ExecStore(db, pipeq)
               /\ ppc' = "done"
               /\ \A t \in DOMAIN pdata : \A r \in DOMAIN pdata[t] :
                      \E i \in 1..Len(pipeq) : pipeq[i].key = Hash(t, r)
          ELSE db' = db]_vars

\* a committed call that deleted table PC page by page and wrote a row of P,
\* while the other client wrote to P
C9_Witness ==
    /\ ppc = "done"
    /\ writes = 1
    /\ \E i \in 1..Len(pipeq) : pipeq[i].cmd = "DEL" /\ pipeq[i].key = <<"P", "C", "|", "a">>
    /\ \E i \in 1..Len(pipeq) : pipeq[i].cmd = "HMSET" /\ pipeq[i].key = <<"P", "|", "a">>
    /\ <<"P", "C", "|", "a">> \notin DOMAIN db
    /\ db # pre

\* the rows the other client has written, with fields, since the batch
\* mod_config began
WrittenMeanwhile ==
    {Hash(hist[j].table, hist[j].key) :
        j \in {i \in 1..Len(hist) :
                  /\ hist[i].op = "mod"
                  /\ ~IsEmpty(hist[i].data)
                  /\ \E b \in 1..(i - 1) : hist[b].op = "pipe_mod_config"}}

\* C20: immediately after the commit of batch mod_config({T: {}}) the store holds
\* no row of T, whatever the other client wrote to T between the pages of the
\* enumeration and the commit.
C20_TableEmptyAtCommit ==
    \A T \in PipeTables :
        (hist # <<>> /\ Last.op = "exec" /\ pdata = (T :> EmptyMap)) =>
            \A k \in DOMAIN db : ~IsRowOf(k, T)

\* C20, amended: immediately after the commit of batch mod_config({T: {}}) every
\* row of T the store holds is one the other client wrote after the call began;
\* every other row of T is gone.
C20_OnlyRowsWrittenMeanwhileRemain ==
    \A T \in PipeTables :
        (hist # <<>> /\ Last.op = "exec" /\ pdata = (T :> EmptyMap)) =>
            \A k \in DOMAIN db : IsRowOf(k, T) => k \in WrittenMeanwhile

\* mod_config({"p": {}}) has just committed: row a|b of P, there when the call
\* began, is gone, and row a, written by the other client during the call, is
\* in the store
C20_Witness ==
    /\ hist # <<>>
    /\ Last.op = "exec"
    /\ pdata = (<<"p">> :> EmptyMap)
    /\ <<"P", "|", "a", "|", "b">> \in DOMAIN pre
    /\ <<"P", "|", "a", "|", "b">> \notin DOMAIN db
    /\ <<"P", "|", "a">> \notin DOMAIN pre
    /\ <<"P", "|", "a">> \in DOMAIN db

----------------------------------------------------------------------------
(* ConfigDBConnector::db_connect step by step, beside the writer that populates
   the store.  Each step is one exchange with the store. *)

\* "__keyspace@<dbid>__:" + key; "_" stands for the text before the colon
ChannelOf(key) == <<"_", ":">> \o key

Message(type, channel) == [type |-> type, channel |-> channel]

\* variant: any present value counts, the empty one too
IsInitializedIfPresent(v) == v # Nil

\* initialized && !initialized->empty()
IsInitialized(v) == v # Nil /\ v # ""

\* the key a message is about: the text after the first ':' of its channel
KeyOfChannel(channel) ==
    LET pos == Find(channel, ":")
    IN  IF pos # 0 THEN SubstrFrom(channel, pos + 1) ELSE <<>>

\* what the subscription delivers for a change of key k
Published(k) ==
    IF subscribed THEN Append(events, Message("pmessage", ChannelOf(k))) ELSE events

MaxNoise == 3

GateInit ==
    /\ db = <<>>
    /\ sentinel \in {Nil, "", "1"}
    /\ pre = db
    /\ hist = <<>>
    /\ PipeIdle
    /\ gpc = "start"
    /\ wait_for_init \in BOOLEAN
    /\ initialized = Nil
    /\ subscribed = FALSE
    /\ events = <<>>
    /\ heard = <<>>
    /\ populated = (sentinel = "1")

\* if (wait_for_init) { initialized = client.get(INIT_INDICATOR); if (...) {
GateCheck ==
    /\ gpc = "start"
    /\ IF wait_for_init
       THEN /\ initialized' = sentinel
            /\ gpc' = IF IsInitialized(sentinel) THEN "done" ELSE "subscribe"
       ELSE /\ gpc' = "done"
            /\ UNCHANGED initialized
    /\ UNCHANGED <<db, sentinel, histVars, pipeVars,
                   wait_for_init, subscribed, events, heard, populated>>

\* pubsub->psubscribe(pattern): the subscription's first message confirms it
GateSubscribe ==
    /\ gpc = "subscribe"
    /\ subscribed' = TRUE
    /\ events' = Append(events, Message("psubscribe", ChannelOf(INIT_INDICATOR)))
    /\ gpc' = "listen"
    /\ UNCHANGED <<db, sentinel, histVars, pipeVars,
                   wait_for_init, initialized, heard, populated>>

\* item = pubsub->listen_message(), which blocks until a message is there
GateListen ==
    /\ gpc = "listen"
    /\ events # <<>>
    /\ LET item == Head(events)
       IN  /\ heard' = Append(heard, item)
           /\ gpc' = IF item.type = "pmessage"
                        /\ KeyOfChannel(item.channel) = INIT_INDICATOR
                     THEN "recheck" ELSE "listen"
    /\ events' = Tail(events)
    /\ UNCHANGED <<db, sentinel, histVars, pipeVars,
                   wait_for_init, initialized, subscribed, populated>>

\* initialized = client.get(INIT_INDICATOR); if (...) break;
GateRecheck ==
    /\ gpc = "recheck"
    /\ initialized' = sentinel
    /\ gpc' = IF IsInitialized(sentinel) THEN "unsubscribe" ELSE "listen"
    /\ UNCHANGED <<db, sentinel, histVars, pipeVars,
                   wait_for_init, subscribed, events, heard, populated>>

\* variant: db_connect returns after the break without punsubscribe
GateReturnSubscribed ==
    /\ gpc = "unsubscribe"
    /\ gpc' = "done"
    /\ UNCHANGED <<db, sentinel, histVars, pipeVars,
                   wait_for_init, initialized, subscribed, events, heard, populated>>

\* pubsub->punsubscribe(pattern)
GateUnsubscribe ==
    /\ gpc = "unsubscribe"
    /\ subscribed' = FALSE
    /\ events' = <<>>
    /\ gpc' = "done"
    /\ UNCHANGED <<db, sentinel, histVars, pipeVars,
                   wait_for_init, initialized, heard, populated>>

GateStep == GateCheck \/ GateSubscribe \/ GateListen \/ GateRecheck \/ GateUnsubscribe

\* the messages delivered to the subscription so far
Noise == Len(heard) + Len(events)

\* the writer creates the sentinel empty, or removes it again, before it is done
WriterTouch ==
    /\ ~populated
    /\ Noise < MaxNoise
    /\ sentinel' = IF sentinel = Nil THEN "" ELSE Nil
    /\ events' = Published(INIT_INDICATOR)
    /\ UNCHANGED <<db, histVars, pipeVars,
                   gpc, wait_for_init, initialized, subscribed, heard, populated>>

\* a message about another key reaches the subscription
StrayMessage ==
    /\ subscribed
    /\ Noise < MaxNoise
    /\ events' = Published(<<"X">>)
    /\ UNCHANGED <<db, sentinel, histVars, pipeVars,
                   gpc, wait_for_init, initialized, subscribed, heard, populated>>

\* the writer is done: it sets the sentinel to "1", and the change event fires
WriterPopulate ==
    /\ ~populated
    /\ sentinel' = "1"
    /\ populated' = TRUE
    /\ events' = Published(INIT_INDICATOR)
    /\ UNCHANGED <<db, histVars, pipeVars,
                   gpc, wait_for_init, initialized, subscribed, heard>>

GateNext == GateStep \/ WriterTouch \/ StrayMessage \/ WriterPopulate

\* the connecting thread keeps running; it only ever waits in listen_message
GateSpec == GateInit /\ [][GateNext]_vars /\ WF_vars(GateStep)

\* C7: once the writer has set the sentinel to a non-empty value and the change
\* event has fired, db_connect with wait_for_init returns, whatever step of it
\* (initial check, subscribe, listen) the writer's set fell between.
C7_PopulatedLeadsToReady ==
    (wait_for_init /\ populated) ~> (gpc = "done")

\* C8: db_connect with wait_for_init leaves its wait only by a check of the
\* sentinel that finds it present and non-empty; no message, of whatever kind or
\* key, ends the wait while the sentinel is absent or empty.
C8_ReadyOnlyAfterSuccessfulCheck ==
    [][(wait_for_init /\ gpc \notin {"unsubscribe", "done"}
            /\ gpc' \in {"unsubscribe", "done"})
          => (sentinel # Nil /\ sentinel # "" /\ initialized' = sentinel)]_vars

\* db_connect has returned after hearing the confirmation, a message about
\* another key and two messages about the sentinel, the first of them while the
\* sentinel was still empty
C8_Witness ==
    /\ wait_for_init /\ gpc = "done" /\ ~subscribed
    /\ Len(heard) = 4
    /\ heard[1].type = "psubscribe"
    /\ heard[2] = Message("pmessage", ChannelOf(INIT_INDICATOR))
    /\ heard[3] = Message("pmessage", ChannelOf(<<"X">>))
    /\ heard[4] = Message("pmessage", ChannelOf(INIT_INDICATOR))
    /\ initialized = "1"

\* every message of the subscription's queue, heard or still waiting
Delivered == heard \o events

\* C16: a subscription is active only inside a db_connect with wait_for_init,
\* between its psubscribe and its punsubscribe, and none is left when it has
\* returned; the only channel subscribed to is the sentinel key's; and a
\* db_connect whose first check finds the sentinel present and non-empty
\* returns at once, never having subscribed or listened.
C16_SubscribedOnlyWhileWaiting ==
    /\ [](subscribed => (wait_for_init /\ gpc \in {"listen", "recheck", "unsubscribe"}))
    /\ [](gpc = "done" => (~subscribed /\ events = <<>>))
    /\ [](\A i \in 1..Len(Delivered) :
             Delivered[i].type = "psubscribe" =>
                 (i = 1 /\ Delivered[i].channel = ChannelOf(INIT_INDICATOR)))
    /\ [](heard # <<>> => heard[1].type = "psubscribe")
    /\ [][(gpc = "start" /\ gpc' # "start" /\ wait_for_init
              /\ sentinel # Nil /\ sentinel # "")
            => (gpc' = "done" /\ ~subscribed' /\ heard' = <<>> /\ events' = <<>>)]_vars

\* db_connect subscribed, heard the confirmation and one message about the
\* sentinel, found it set, unsubscribed and has returned
C16_Witness ==
    /\ wait_for_init /\ gpc = "done"
    /\ ~subscribed
    /\ heard = <<Message("psubscribe", ChannelOf(INIT_INDICATOR)),
                 Message("pmessage", ChannelOf(INIT_INDICATOR))>>
    /\ initialized = "1"

----------------------------------------------------------------------------
(* Claims about delete_table, get_table and get_config (ConfigSpec) *)

\* C11: after delete_table(T) a get_table(T) returns no row, whatever the
\* store held, and every key that is not a row of T is in the store with the
\* entry it had; the call adds no key.
C11_DeleteTableEmptiesOnlyThatTable ==
    (hist # <<>> /\ Last.op = "delete_table") =>
        /\ IsEmpty(get_table(db, sentinel, Last.snap))
        /\ DOMAIN db \subseteq DOMAIN pre
        /\ \A k \in DOMAIN pre :
               ~IsRowOf(k, Last.snap) => (k \in DOMAIN db /\ db[k] = pre[k])

\* delete_table("p") on a store holding two rows of P and rows of other tables
C11_Witness ==
    /\ hist # <<>>
    /\ Last.op = "delete_table"
    /\ Last.snap = <<"p">>
    /\ {<<"P", "|", "a">>, <<"P", "|", "a", "|", "b">>, <<"P", "C", "|", "a">>, <<"X">>}
           \subseteq DOMAIN pre
    /\ <<"P", "C", "|", "a">> \in DOMAIN db

RECURSIVE Concat(_)
Concat(seqs) == IF seqs = <<>> THEN <<>> ELSE Head(seqs) \o Concat(Tail(seqs))

Range(seq) == {seq[i] : i \in 1..Len(seq)}

\* the pages batch get_config went through on the store it was called on
PagesRead == pipe_get_config_run(pre, sentinel).pages

\* the keys a hash read was issued for by the get_config call just made
ReadsIssued ==
    IF Last.op = "get_config" THEN get_config_run(pre, sentinel).reads
    ELSE Concat([i \in 1..Len(PagesRead) |-> PagesRead[i].reads])

\* C12: get_config, direct and batch, on any store: the sentinel key is no table
\* name and no row key of the snapshot returned, and no hash read is issued
\* for the sentinel key.
C12_GetConfigSkipsTheSentinel ==
    (hist # <<>> /\ Last.op \in {"get_config", "pipe_get_config"}) =>
        /\ INIT_INDICATOR \notin DOMAIN Last.ret
        /\ \A t \in DOMAIN Last.ret : INIT_INDICATOR \notin DOMAIN Last.ret[t]
        /\ INIT_INDICATOR \notin Range(ReadsIssued)

\* batch get_config on a store holding the sentinel and rows: a page held the
\* sentinel beside a key that was read
C12_Witness ==
    /\ hist # <<>>
    /\ Last.op = "pipe_get_config"
    /\ sentinel # Nil
    /\ \E i \in 1..Len(PagesRead) :
           /\ INIT_INDICATOR \in Range(PagesRead[i].keys)
           /\ PagesRead[i].reads # <<>>
    /\ Last.ret # EmptyMap

\* C13: get_table(T) returns one entry for every store key beginning with
\* uppercase(T) + separator, under the text after the key's first separator,
\* with the stored entry as its value, and nothing else.
C13_GetTableReturnsTheRowsOfT ==
    (hist # <<>> /\ Last.op = "get_table") =>
        LET prefix == to_upper(Last.snap) \o <<TABLE_NAME_SEPARATOR>>
            mine   == {k \in DOMAIN db : IsPrefix(prefix, k)}
        IN  /\ DOMAIN Last.ret = {DecodedRow(k) : k \in mine}
            /\ Cardinality(DOMAIN Last.ret) = Cardinality(mine)
            /\ \A k \in mine : Last.ret[DecodedRow(k)] = db[k]

\* get_table("p") on a store holding both rows of P and a row of PC
C13_Witness ==
    /\ hist # <<>>
    /\ Last.op = "get_table"
    /\ Last.snap = <<"p">>
    /\ <<"P", "C", "|", "a">> \in DOMAIN db
    /\ DOMAIN Last.ret = {<<"a">>, <<"a", "|", "b">>}

\* C14: in every page of batch get_config the reply dequeued while key k is
\* processed is the reply to the hash read enqueued for k, and as many replies
\* are dequeued as reads were enqueued, whatever keys the page holds.
C14_RepliesPairedWithTheirKeys ==
    (hist # <<>> /\ Last.op = "pipe_get_config") =>
        \A i \in 1..Len(PagesRead) :
            /\ Len(PagesRead[i].taken) = Len(PagesRead[i].reads)
            /\ \A j \in 1..Len(PagesRead[i].taken) :
                   PagesRead[i].taken[j][1] = PagesRead[i].taken[j][2]

\* the cursor protocol over the pages of one pass: the first call passes 0, every
\* later call passes the non-zero cursor the call before it returned, and the
\* last call is the one that returned 0
CursorProtocol(pages) ==
    /\ pages # <<>>
    /\ Len(pages) <= Len(Slots)
    /\ pages[1].cursor = 0
    /\ \A i \in 2..Len(pages) :
           pages[i - 1].cur # 0 /\ pages[i].cursor = pages[i - 1].cur
    /\ pages[Len(pages)].cur = 0

\* C15: _delete_table and batch get_config follow the cursor protocol and end,
\* and the keys of every page are processed: a DEL is enqueued for every key of
\* the table, a hash read for every key of the store but the sentinel.
C15_CursorProtocolFollowed ==
    /\ (hist # <<>> /\ Last.op = "pipe_get_config") =>
           /\ CursorProtocol(PagesRead)
           /\ Range(ReadsIssued) = DOMAIN pre
    /\ \A T \in ConfigTables :
           (hist # <<>> /\ Last.op = "pipe_mod_config" /\ Last.snap = (T :> EmptyMap)) =>
               LET run == _delete_table_run(pre, sentinel, <<>>, T)
               IN  /\ CursorProtocol(run.pages)
                   /\ {c.key : c \in Range(run.pipe)}
                          = {k \in DOMAIN pre : IsPrefix(Pattern(T), k)}
                   /\ \A c \in Range(run.pipe) : c.cmd = "DEL"
                   /\ db = ExecStore(pre, run.pipe)

\* batch get_config went through three pages, the middle one empty and the
\* last one, returned with cursor 0, holding a key
C15_Witness ==
    /\ hist # <<>>
    /\ Last.op = "pipe_get_config"
    /\ Len(PagesRead) = 3
    /\ PagesRead[2].keys = <<>>
    /\ PagesRead[3].keys # <<>>
    /\ PagesRead[3].cur = 0

----------------------------------------------------------------------------
(* Claims about table names (Spec) *)

\* C17: after mod_entry(t1, R, d) with non-empty d, get_entry(t2, R) holds every
\* field of d with d's value for every t2 whose uppercase form is that of t1,
\* and get_config reports the row, with those fields, under uppercase(t1) and
\* under no other spelling of the name.
C17_TableNamesCaseInsensitive ==
    (hist # <<>> /\ Last.op = "mod" /\ ~IsEmpty(Last.data)) =>
        LET T == to_upper(Last.table)
            c == get_config(db, sentinel)
        IN  /\ \A t2 \in EntryTables :
                   to_upper(t2) = T =>
                       \A f \in DOMAIN Last.data :
                           /\ f \in DOMAIN get_entry(db, t2, Last.key)
                           /\ get_entry(db, t2, Last.key)[f] = Last.data[f]
            /\ T \in DOMAIN c
            /\ Last.key \in DOMAIN c[T]
            /\ \A f \in DOMAIN Last.data :
                   f \in DOMAIN c[T][Last.key] /\ c[T][Last.key][f] = Last.data[f]
            /\ \A t \in DOMAIN c : to_upper(t) = T => t = T

\* mod_entry("p", "a|b", {g:1}) on a store without the row: get_entry("P", "a|b")
\* returns it and get_config reports it under "P"
C17_Witness ==
    /\ hist # <<>>
    /\ Last.op = "mod"
    /\ Last.table = <<"p">>
    /\ Last.key = <<"a", "|", "b">>
    /\ Last.data = ("g" :> "1")
    /\ <<"P", "|", "a", "|", "b">> \notin DOMAIN pre
    /\ get_entry(db, <<"P">>, Last.key) = ("g" :> "1")
    /\ DOMAIN get_config(db, sentinel) = {<<"P">>}

----------------------------------------------------------------------------
(* Claims comparing the two connectors (ConfigSpec) *)

\* C18: for every store and every snapshot, a snapshot naming one table under two
\* spellings included, batch mod_config leaves the store in the state direct
\* mod_config leaves it in.
C18_PipeModConfigEqualsModConfig ==
    (hist # <<>> /\ IsModConfig(Last)) =>
        /\ db \in {mod_config(pre, sentinel, Last.snap),
                    pipe_mod_config(pre, sentinel, Last.snap)}
        /\ mod_config(pre, sentinel, Last.snap) = pipe_mod_config(pre, sentinel, Last.snap)

\* C19: mod_config(get_config()), on the direct and on the batch connector,
\* leaves every key and every field of the store as it was, whatever the store
\* holds.
C19_WriteBackChangesNothing ==
    (hist # <<>> /\ Last.op \in {"write_back", "pipe_write_back"}) => db = pre

====
